---- MODULE Spec2Model ----
(***************************************************************************)
(* The pending-expense store of asset-service: PendingStore                *)
(* (src/app/services/pending_store.py) and the routers that call it        *)
(* (src/app/routers/expenses.py, src/app/routers/accrued.py).              *)
(*                                                                         *)
(* Money is counted in mills (thousandths of the currency unit), so that   *)
(* round(x, 2) of clear_accrued is a real conversion: Cent mills make one  *)
(* cent, and an amount that is no multiple of Cent has more than two       *)
(* decimals.  Python floats are abstracted to exact integers of mills.     *)
(*                                                                         *)
(* clear_accrued (pending_store.py:413-439) carries the residue of two     *)
(* edits: the event is appended to rec["clearing"] (424-433) and the names *)
(* clearing / new_entry of 434-435 are bound nowhere.  The model reads     *)
(* `clearing` as rec["clearing"] after the one append of 424, which is the *)
(* only list the function builds.                                          *)
(***************************************************************************)
EXTENDS Integers, Sequences, FiniteSets, TLC

VARIABLES
    data,      \* PendingStore._data: expense_id -> record
    disk,      \* the JSON snapshot at PendingStore.path, as _save last wrote it
    now,       \* the reading of time.time(), in clock ticks
    last,      \* the response of the most recent call: operation, id, outcome
    submitter, \* history: expense_id -> user.user_id of the create request
    lock,      \* PendingStore._lock: 0 when free, else the holding thread
    pc,        \* per thread: its position in the call it is making
    t_amt,     \* per thread: clear_accrued's local amt
    t_bal,     \* per thread: clear_accrued's local bal
    loaded,    \* PendingStore._loaded
    t_read,    \* per thread: what _load's json.load(f) returned
    t_req      \* per thread: the caller and the expense_id of its delete request

vars == <<data, disk, now, last, submitter, lock, pc, t_amt, t_bal, loaded, t_read,
         t_req>>

----------------------------------------------------------------------------
(* Bounds *)

MaxClock == 2      \* clock readings 1..MaxClock; ids are clock readings
MaxClearing == 2   \* clearing events per record
MaxReceipts == 2   \* receipts per record
SubCent == 4       \* the sub-cent part, in mills, of the amounts tried

(* round(x, 2): a cent is 10 mills *)
Cent == 10

(* Amounts submitted, and amounts cleared: whole cents and sub-cent ones *)
Amounts == {Cent, Cent + SubCent}
ClearAmounts == {SubCent, Cent}
BadAmounts == {0, 0 - Cent}
Accounts == {"P1", "P2"}
AccruedAccount == "ACC"
Threads == {1, 2}
Ids == 1 .. MaxClock

(* Python's None for an optional value, and a present value *)
None == <<>>
Some(v) == <<v>>

NoUser == "none"

----------------------------------------------------------------------------
(* Pure helpers *)

Max(a, b) == IF a >= b THEN a ELSE b

RECURSIVE SumAmounts(_)
SumAmounts(clearing) ==
    IF clearing = <<>> THEN 0
    ELSE clearing[1].amount + SumAmounts(Tail(clearing))

(* round(x, 2) on mills: the nearest multiple of Cent, a tie to the even cent *)
Round2Nat(x) ==
    LET q == x \div Cent
        r == x % Cent
    IN  IF 2 * r < Cent THEN q * Cent
        ELSE IF 2 * r > Cent THEN (q + 1) * Cent
        ELSE (IF q % 2 = 0 THEN q ELSE q + 1) * Cent

Round2(x) == IF x < 0 THEN 0 - Round2Nat(0 - x) ELSE Round2Nat(x)

----------------------------------------------------------------------------
(* Records are Python dicts: functions from keys to values.  dict.get(key) *)

Get(rec, key) == IF key \in DOMAIN rec THEN rec[key] ELSE None

(* e.get("created_by"): None when the dict has no such key *)
CreatedBy(rec) == IF "created_by" \in DOMAIN rec THEN rec["created_by"] ELSE NoUser

(* dict.update(fields): keys of fields win, other keys stay *)
DictUpdate(rec, fields) ==
    [k \in DOMAIN rec \cup DOMAIN fields |->
        IF k \in DOMAIN fields THEN fields[k] ELSE rec[k]]

(* A caller identity, as core.auth.CurrentUser gives it to the routers *)
Caller(uid, admin, allowed) ==
    [user_id |-> uid, is_admin |-> admin, allowed_cash_accounts |-> allowed]

NoCaller == Caller(NoUser, FALSE, {})

(* The most recent call and its response: the operation, the id and amount
   it was given, whether it succeeded, the caller, the ids a listing returned *)
Resp(op, id, ok, user) ==
    [op |-> op, id |-> id, arg |-> 0, ok |-> ok, user |-> user,
     items |-> {}, range |-> <<>>, detail |-> ""]

RespArg(op, id, arg, ok) ==
    [op |-> op, id |-> id, arg |-> arg, ok |-> ok, user |-> NoCaller,
     items |-> {}, range |-> <<>>, detail |-> ""]

RespList(op, user, items, range) ==
    [op |-> op, id |-> 0, arg |-> 0, ok |-> TRUE, user |-> user,
     items |-> items, range |-> range, detail |-> ""]

(* A refused request: the detail of the HTTPException raised *)
RespDetail(op, user, detail) ==
    [op |-> op, id |-> 0, arg |-> 0, ok |-> FALSE, user |-> user,
     items |-> {}, range |-> <<>>, detail |-> detail]

(* A router's response: arg is the HTTP status, 200 when nothing is raised *)
RespHttp(op, id, user, status_code) ==
    [op |-> op, id |-> id, arg |-> status_code, ok |-> status_code = 200,
     user |-> user, items |-> {}, range |-> <<>>, detail |-> ""]

----------------------------------------------------------------------------
(* create_expense: validation and the record handed to the store *)

(* exp_type of create_expense: anything but "accrued" is "ordinary" *)
ExpType(p) == IF p.expense_type = "accrued" THEN "accrued" ELSE "ordinary"

(* paid_through_id as the caller supplied it, for every type *)
PaidThroughIdSupplied(p, acc) == p.paid_through_account_id

(* paid_through_id: forced to the chart-of-accounts lookup for accrued *)
PaidThroughId(p, acc) ==
    IF ExpType(p) = "accrued" THEN acc.account_id ELSE p.paid_through_account_id

(* The first unmet rule of create_expense, "" when the payload is valid.
   acc is the lookup's answer: None, or Some of the account. *)
CreateError(p, acc) ==
    IF ExpType(p) = "accrued" /\ acc = None
        THEN "Accrued Expenses account not found in COA"
    ELSE IF p.expense_account_id = "" THEN "Expense account is required"
    ELSE IF PaidThroughId(p, IF acc = None THEN [account_id |-> ""] ELSE acc[1]) = ""
        THEN "Paid through is required"
    ELSE IF p.amount <= 0 THEN "Amount must be > 0"
    ELSE IF p.vendor_id = "" /\ p.vendor_name = ""
        THEN "Select a vendor or enter vendor name"
    ELSE ""

(* The dict create_expense builds (the keys the model follows) *)
CreateRecord(p, acc, user, today) ==
    [status |-> "pending",
     expense_type |-> ExpType(p),
     date |-> IF p.date = None THEN today ELSE p.date[1],
     paid_through_account_id |->
        PaidThroughId(p, IF acc = None THEN [account_id |-> ""] ELSE acc[1]),
     amount |-> p.amount,
     created_by |-> user.user_id]

(* The keys add_pending copies from the record into the normalized dict *)
NormalizedKeys ==
    {"status", "date", "amount", "expense_type", "paid_through_account_id",
     "receipts", "zoho_posted", "zoho_error", "zoho_response",
     "balance", "clearing", "cleared_at"}

(* add_pending without lines 200-201: an accrued balance stays None *)
NormalizedNoDefault(record) ==
    [k \in NormalizedKeys |->
        IF k \in {"clearing", "receipts"} /\ Get(record, k) = None THEN <<>>
        ELSE IF k = "zoho_posted" /\ Get(record, k) = None THEN FALSE
        ELSE Get(record, k)]

(* add_pending's normalized dict: the keys of NormalizedKeys only *)
Normalized(record) ==
    LET given == [k \in NormalizedKeys |-> Get(record, k)]
        bal == IF given["expense_type"] = "accrued" /\ given["balance"] = None
               THEN Some(given["amount"])
               ELSE given["balance"]
    IN  [k \in NormalizedKeys |->
            CASE k = "balance" -> bal
              [] k \in {"clearing", "receipts"} ->
                    IF given[k] = None THEN <<>> ELSE given[k]
              [] k = "zoho_posted" ->
                    IF given[k] = None THEN FALSE ELSE given[k]
              [] OTHER -> given[k]]

(* _next_id: str(int(time.time() * 1000)), the clock reading *)
NextId == now

----------------------------------------------------------------------------
(* clear_accrued: the guards and the arithmetic *)

(* The amount check letting a negative amount through *)
ClearAmountOkNonZero(amt) == amt # 0

(* amt = _safe_float(amount); "if not amt or amt <= 0: return None" *)
ClearAmountOk(amt) == amt > 0

(* The guards without the status check of 408-409 *)
ClearRecordOkAnyStatus(store, id) ==
    /\ id \in DOMAIN store
    /\ store[id]["expense_type"] = "accrued"

(* The guards under the lock: known id, approved, accrued *)
ClearRecordOk(store, id) ==
    /\ id \in DOMAIN store
    /\ store[id]["status"] = "approved"
    /\ store[id]["expense_type"] = "accrued"

(* bal: the stored balance, the original amount when it is None *)
ClearReadBalance(rec) ==
    IF rec["balance"] = None THEN rec["amount"] ELSE rec["balance"][1]

(* new_bal = bal - amt, floored at 0 (418-420) *)
ClearNewBal(bal, amt) == Max(0, bal - amt)

(* The appended event records float(amt), the requested amount (424-433) *)
ClearEvent(amt) == [amount |-> amt]

(* The balance without the floor max(0.0, ...) *)
ClearBalanceNoFloor(orig_amt, clearing) == Round2(orig_amt - SumAmounts(clearing))

(* rec["balance"] = max(0.0, round(orig_amt - total_cleared, 2)) (437-439) *)
ClearBalance(orig_amt, clearing) ==
    Max(0, Round2(orig_amt - SumAmounts(clearing)))

(* cleared_at stamped anew at every clear that leaves no balance *)
ClearedAtRenewed(rec, balance, t) == IF balance <= 0 THEN Some(t) ELSE None

(* cleared_at: kept or set when the balance is 0, None otherwise (441-444) *)
ClearedAt(rec, balance, t) ==
    IF balance <= 0
    THEN (IF rec["cleared_at"] = None THEN Some(t) ELSE rec["cleared_at"])
    ELSE None

(* The record after lines 413-444 *)
Cleared(rec, amt, t) ==
    LET clearing == Append(rec["clearing"], ClearEvent(amt))
        balance == ClearBalance(rec["amount"], clearing)
    IN  DictUpdate(rec, [balance |-> Some(balance),
                         clearing |-> clearing,
                         cleared_at |-> ClearedAt(rec, balance, t)])

----------------------------------------------------------------------------
(* Initial state: a constructed store whose file does not exist yet; _load
   has looked for it, which sets _loaded and leaves _data empty.  No thread
   is running. *)

Init ==
    /\ data = <<>>
    /\ disk = <<>>
    /\ now = 1
    /\ last = Resp("none", 0, TRUE, NoCaller)
    /\ submitter = <<>>
    /\ lock = 0
    /\ pc = [t \in Threads |-> "idle"]
    /\ t_amt = [t \in Threads |-> 0]
    /\ t_bal = [t \in Threads |-> 0]
    /\ loaded = TRUE
    /\ t_read = [t \in Threads |-> <<>>]
    /\ t_req = [t \in Threads |-> <<>>]

loadVars == <<loaded, t_read>>
threadVars == <<lock, pc, t_amt, t_bal, loadVars, t_req>>

----------------------------------------------------------------------------
(* The operations, one call at a time (each runs under PendingStore._lock) *)

(* time passes *)
Tick ==
    /\ now < MaxClock
    /\ now' = now + 1
    /\ UNCHANGED <<data, disk, last, submitter, threadVars>>

(* POST /create: create_expense, then PendingStore.add_pending *)
Submit(user, p, acc, today) ==
    /\ IF CreateError(p, acc) # ""
       THEN /\ last' = RespDetail("submit", user, CreateError(p, acc))
            /\ UNCHANGED <<data, disk, submitter>>
       ELSE LET expense_id == NextId
                normalized == Normalized(CreateRecord(p, acc, user, today))
            IN  /\ data' = (expense_id :> normalized) @@ data
                /\ disk' = data'
                /\ submitter' = (expense_id :> user.user_id) @@ submitter
                /\ last' = Resp("submit", expense_id, TRUE, user)
    /\ UNCHANGED <<now, threadVars>>

(* What approve writes: status and approved_at always, the upstream
   outcome only when a response payload is given (358-363) *)
Approved(rec, zoho_response, t) ==
    LET marked == DictUpdate(rec, [status |-> "approved", approved_at |-> Some(t)])
    IN  IF zoho_response # None
        THEN DictUpdate(marked, [zoho_posted |-> TRUE,
                                 zoho_error |-> None,
                                 zoho_response |-> zoho_response])
        ELSE marked

(* PendingStore.approve; zoho_response is None when the call gives none *)
Approve(id, zoho_response) ==
    /\ IF id \notin DOMAIN data
       THEN /\ last' = Resp("approve", id, FALSE, NoCaller)
            /\ UNCHANGED <<data, disk>>
       ELSE /\ data' = [data EXCEPT ![id] = Approved(@, zoho_response, now)]
            /\ disk' = data'
            /\ last' = Resp("approve", id, TRUE, NoCaller)
    /\ UNCHANGED <<now, submitter, threadVars>>

(* PendingStore.reject; rejected_at, a key nothing reads, is not followed *)
Reject(id) ==
    /\ IF id \notin DOMAIN data
       THEN /\ last' = Resp("reject", id, FALSE, NoCaller)
            /\ UNCHANGED <<data, disk>>
       ELSE /\ data' = [data EXCEPT ![id] = DictUpdate(@, [status |-> "rejected"])]
            /\ disk' = data'
            /\ last' = Resp("reject", id, TRUE, NoCaller)
    /\ UNCHANGED <<now, submitter, threadVars>>

(* PendingStore.update_fields *)
UpdateFields(id, fields) ==
    /\ IF id \notin DOMAIN data
       THEN /\ last' = Resp("update", id, FALSE, NoCaller)
            /\ UNCHANGED <<data, disk>>
       ELSE /\ data' = [data EXCEPT ![id] = DictUpdate(@, fields)]
            /\ disk' = data'
            /\ last' = Resp("update", id, TRUE, NoCaller)
    /\ UNCHANGED <<now, submitter, threadVars>>

(* PendingStore.clear_accrued, as add_clearing calls it *)
ClearAccrued(id, amt) ==
    /\ id \in DOMAIN data => Len(data[id]["clearing"]) < MaxClearing
    /\ IF ~(ClearAmountOk(amt) /\ ClearRecordOk(data, id))
       THEN /\ last' = RespArg("clear", id, amt, FALSE)
            /\ UNCHANGED <<data, disk>>
       ELSE /\ data' = [data EXCEPT ![id] = Cleared(@, amt, now)]
            /\ disk' = data'
            /\ last' = RespArg("clear", id, amt, TRUE)
    /\ UNCHANGED <<now, submitter, threadVars>>

----------------------------------------------------------------------------
(* The lifecycle and ledger specification *)

TheUser == Caller("u1", FALSE, {"P1"})
Today == <<2024, 12, 15>>
AccruedLookup == Some([account_id |-> AccruedAccount])

(* The create payloads tried: both types, every amount and a zero amount *)
Payloads ==
    {[expense_type |-> ty, expense_account_id |-> "E1",
      paid_through_account_id |-> "P1", amount |-> a,
      vendor_id |-> "V1", vendor_name |-> "", date |-> None] :
        ty \in {"ordinary", "accrued"}, a \in Amounts \cup {0}}

(* The patches tried: a status, a balance *)
Patches == {[status |-> "pending"], [balance |-> Some(Cent + SubCent)]}

Next ==
    \/ Tick
    \/ \E p \in Payloads : Submit(TheUser, p, AccruedLookup, Today)
    \/ \E id \in Ids : Approve(id, None)
    \/ \E id \in Ids : Reject(id)
    \/ \E id \in Ids, f \in Patches : UpdateFields(id, f)
    \/ \E id \in Ids, amt \in ClearAmounts \cup BadAmounts : ClearAccrued(id, amt)

Spec == Init /\ [][Next]_vars

----------------------------------------------------------------------------
(* Listing approved expenses: dates are <<year, month, day>> *)

DateLess(a, b) ==
    \/ a[1] < b[1]
    \/ a[1] = b[1] /\ a[2] < b[2]
    \/ a[1] = b[1] /\ a[2] = b[2] /\ a[3] < b[3]

(* _month_bounds that keeps the year when December rolls over *)
MonthBoundsSameYear(today) ==
    <<Some(<<today[1], today[2], 1>>), Some(<<today[1], (today[2] % 12) + 1, 1>>)>>

(* _month_bounds: the first of the month and the first of the next month *)
MonthBounds(today) ==
    LET start == <<today[1], today[2], 1>>
        nxt == IF start[2] = 12 THEN <<start[1] + 1, 1, 1>>
               ELSE <<start[1], start[2] + 1, 1>>
    IN  <<Some(start), Some(nxt)>>

(* in_range of list_approved: the record's date in [sd, ed), a missing
   bound being no bound *)
InRange(d, sd, ed) ==
    /\ sd = None \/ ~DateLess(d, sd[1])
    /\ ed = None \/ DateLess(d, ed[1])

(* PendingStore.list_approved: the ids of the approved records in range.
   Lines 310-314 name sd_d, ed_d and in_range, which the file binds nowhere:
   sd_d and ed_d are read as the parsed sd and ed of 301-302, in_range as
   InRange above. *)
StoreListApproved(store, start_date, end_date, default_current_month, today) ==
    LET bounds == IF start_date = None /\ end_date = None /\ default_current_month
                  THEN MonthBounds(today)
                  ELSE <<start_date, end_date>>
        items == {id \in DOMAIN store : store[id]["status"] = "approved"}
    IN  IF bounds[1] = None /\ bounds[2] = None THEN items
        ELSE {id \in items : InRange(store[id]["date"], bounds[1], bounds[2])}

(* The router's filter for a caller who is no admin *)
Visible(e, user) ==
    \/ CreatedBy(e) = user.user_id
    \/ e["paid_through_account_id"] \in user.allowed_cash_accounts

(* GET /approved: list_approved of the expenses router *)
ListApproved(user, start_date, end_date, today) ==
    LET items == StoreListApproved(data, start_date, end_date, TRUE, today)
        shown == IF user.is_admin THEN items
                 ELSE {id \in items : Visible(data[id], user)}
        range == IF start_date = None /\ end_date = None
                 THEN MonthBounds(today) ELSE <<start_date, end_date>>
    IN  /\ last' = RespList("list_approved", user, shown, range)
        /\ UNCHANGED <<data, disk, now, submitter, threadVars>>

----------------------------------------------------------------------------
(* The visibility specification: who submitted, which account, which date *)

Callers ==
    {Caller("u1", FALSE, {"P1"}), Caller("u2", FALSE, {}), Caller("admin", TRUE, {})}
Submitters == {c \in Callers : ~c.is_admin}
December == <<2024, 12, 31>>
January == <<2025, 1, 1>>

VisPayloads ==
    {[expense_type |-> "ordinary", expense_account_id |-> "E1",
      paid_through_account_id |-> pt, amount |-> Cent,
      vendor_id |-> "V1", vendor_name |-> "", date |-> Some(d)] :
        pt \in Accounts, d \in {December, January}}

VisPatches == {[created_by |-> u] : u \in {"u1"}}

(* The ranges asked for: none (the current month) and an explicit one *)
Ranges == {<<None, None>>, <<Some(January), Some(<<2025, 2, 1>>)>>}

NextVis ==
    \/ Tick
    \/ \E u \in Submitters, p \in VisPayloads : Submit(u, p, AccruedLookup, Today)
    \/ \E id \in Ids : Approve(id, None)
    \/ \E id \in Ids, f \in VisPatches : UpdateFields(id, f)
    \/ \E c \in Callers, r \in Ranges : ListApproved(c, r[1], r[2], Today)

SpecVis == Init /\ [][NextVis]_vars

----------------------------------------------------------------------------
(* Listing accrued expenses, fetching and deleting one record *)

(* PendingStore.list_accrued, lines 329-334: x is a reference into _data, so
   a missing balance is written into the stored record (and not saved) *)
AccruedBalanceFilled(store) ==
    [id \in DOMAIN store |->
        IF /\ store[id]["status"] = "approved"
           /\ store[id]["expense_type"] = "accrued"
           /\ store[id]["balance"] = None
        THEN DictUpdate(store[id], [balance |-> Some(store[id]["amount"])])
        ELSE store[id]]

(* list_accrued that never drops a cleared record *)
StoreListAccruedAll(store, include_cleared) ==
    {id \in DOMAIN store :
        /\ store[id]["status"] = "approved"
        /\ store[id]["expense_type"] = "accrued"}

(* PendingStore.list_accrued: the ids of the approved accrued records, the
   ones with no balance left only when include_cleared.  The order of the
   list (approved_at, newest first) is not followed. *)
StoreListAccrued(store, include_cleared) ==
    {id \in DOMAIN store :
        /\ store[id]["status"] = "approved"
        /\ store[id]["expense_type"] = "accrued"
        /\ include_cleared \/ ClearReadBalance(store[id]) > 0}

(* GET /expenses of the accrued router: the handler takes no user, user is
   whoever sent the request *)
ListAccrued(user, include_cleared) ==
    /\ data' = AccruedBalanceFilled(data)
    /\ last' = RespList("list_accrued", user,
                        StoreListAccrued(data, include_cleared), <<>>)
    /\ UNCHANGED <<disk, now, submitter, threadVars>>

(* GET /{expense_id}: get_expense *)
GetExpenseStatus(store, user, id) ==
    IF id \notin DOMAIN store THEN 404
    ELSE IF /\ ~user.is_admin
            /\ store[id]["paid_through_account_id"] \notin user.allowed_cash_accounts
         THEN 403
    ELSE 200

GetExpense(user, id) ==
    /\ last' = RespHttp("get", id, user, GetExpenseStatus(data, user, id))
    /\ UNCHANGED <<data, disk, now, submitter, threadVars>>

(* DELETE /{expense_id}: the checks of delete_expense *)
DeleteExpenseStatus(store, user, id) ==
    IF id \notin DOMAIN store THEN 404
    ELSE IF ~user.is_admin /\ store[id]["status"] # "pending" THEN 403
    ELSE IF ~user.is_admin /\ CreatedBy(store[id]) # user.user_id THEN 403
    ELSE 200

(* delete that reports True without removing anything *)
StoreDeleteKept(store, id) == store

(* PendingStore.delete: del self._data[key], then _save *)
StoreDelete(store, id) == [k \in DOMAIN store \ {id} |-> store[k]]

DeleteExpense(user, id) ==
    LET status_code == DeleteExpenseStatus(data, user, id)
    IN  /\ IF status_code = 200
           THEN /\ data' = StoreDelete(data, id)
                /\ disk' = data'
           ELSE UNCHANGED <<data, disk>>
        /\ last' = RespHttp("delete", id, user, status_code)
        /\ UNCHANGED <<now, submitter, threadVars>>

----------------------------------------------------------------------------
(* The access specification: who may list, fetch and delete which record *)

AccessPayloads ==
    {[expense_type |-> ty, expense_account_id |-> "E1",
      paid_through_account_id |-> pt, amount |-> Cent,
      vendor_id |-> "V1", vendor_name |-> "", date |-> None] :
        ty \in {"ordinary", "accrued"}, pt \in Accounts}

NextAccess ==
    \/ Tick
    \/ \E u \in Submitters, p \in AccessPayloads : Submit(u, p, AccruedLookup, Today)
    \/ \E id \in Ids : Approve(id, None)
    \/ \E id \in Ids : Reject(id)
    \/ \E id \in Ids, f \in VisPatches : UpdateFields(id, f)
    \/ \E id \in Ids : ClearAccrued(id, Cent)
    \/ \E c \in Callers, inc \in BOOLEAN : ListAccrued(c, inc)
    \/ \E c \in Callers, id \in Ids : GetExpense(c, id)
    \/ \E c \in Callers, id \in Ids : DeleteExpense(c, id)

SpecAccess == Init /\ [][NextAccess]_vars

----------------------------------------------------------------------------
(* Attaching receipts *)

(* add_receipt without the status check of line 261 *)
AddReceiptOkAnyStatus(store, id) == id \in DOMAIN store

(* "if not rec or rec.get('status') != 'pending': return None" *)
AddReceiptOk(store, id) ==
    /\ id \in DOMAIN store
    /\ store[id]["status"] = "pending"

(* The appended entry (265-269) *)
Receipt(filename, url, t) == [filename |-> filename, url |-> url, created_at |-> t]

(* PendingStore.add_receipt *)
AddReceipt(id, filename, url) ==
    /\ AddReceiptOk(data, id) => Len(data[id]["receipts"]) < MaxReceipts
    /\ IF ~AddReceiptOk(data, id)
       THEN /\ last' = Resp("add_receipt", id, FALSE, NoCaller)
            /\ UNCHANGED <<data, disk>>
       ELSE /\ data' = [data EXCEPT ![id] =
                          DictUpdate(@, [receipts |->
                              Append(data[id]["receipts"], Receipt(filename, url, now))])]
            /\ disk' = data'
            /\ last' = Resp("add_receipt", id, TRUE, NoCaller)
    /\ UNCHANGED <<now, submitter, threadVars>>

(* The receipt specification: records in every status, receipts attached
   at different times, so that the entries of one record differ *)
Filenames == {"a.pdf"}
ReceiptUrl(filename) == "/receipts/" \o filename
ReceiptPayloads == {p \in Payloads : p.expense_type = "ordinary" /\ p.amount = Cent}

NextReceipt ==
    \/ Tick
    \/ \E p \in ReceiptPayloads : Submit(TheUser, p, AccruedLookup, Today)
    \/ \E id \in Ids : Approve(id, None)
    \/ \E id \in Ids : Reject(id)
    \/ \E id \in Ids, f \in Filenames : AddReceipt(id, f, ReceiptUrl(f))

SpecReceipt == Init /\ [][NextReceipt]_vars

----------------------------------------------------------------------------
(* Approval with the outcome of the upstream post *)

(* What the caller of approve knows of the upstream post: nothing was
   posted, the post succeeded with a payload, or it failed with a message *)
UpstreamOutcomes ==
    {[kind |-> "none", payload |-> "", message |-> ""],
     [kind |-> "success", payload |-> "r1", message |-> ""],
     [kind |-> "success", payload |-> "r2", message |-> ""],
     [kind |-> "failed", payload |-> "", message |-> "timeout"]}

(* approve(expense_id, *, zoho_response=None): the one argument an outcome
   can be handed over in; a failure has no parameter *)
ZohoResponseArg(outcome) ==
    IF outcome.kind = "success" THEN Some(outcome.payload) ELSE None

ApprovePayloads == {p \in Payloads : p.expense_type = "ordinary" /\ p.amount = Cent}

NextApprove ==
    \/ Tick
    \/ \E p \in ApprovePayloads : Submit(TheUser, p, AccruedLookup, Today)
    \/ \E id \in Ids, o \in UpstreamOutcomes : Approve(id, ZohoResponseArg(o))
    \/ \E id \in Ids : Reject(id)

SpecApprove == Init /\ [][NextApprove]_vars

----------------------------------------------------------------------------
(* The create specification: every mix of valid and invalid fields, and
   every answer of the chart-of-accounts lookup *)

CreatePayloads ==
    {[expense_type |-> ty, expense_account_id |-> ea,
      paid_through_account_id |-> pt, amount |-> a,
      vendor_id |-> vi, vendor_name |-> vn, date |-> None] :
        ty \in {"ordinary", "accrued"}, ea \in {"", "E1"}, pt \in {"", "P1"},
        a \in {Cent, 0}, vi \in {"", "V1"}, vn \in {"", "Acme"}}

(* coa_store.accrued_paid_through_account(): nothing, the account, or an
   account row without an id *)
AccruedLookups ==
    {None, Some([account_id |-> AccruedAccount]), Some([account_id |-> ""])}

NextCreate ==
    \/ Tick
    \/ \E p \in CreatePayloads, acc \in AccruedLookups : Submit(TheUser, p, acc, Today)
    \/ \E id \in Ids : Approve(id, None)

SpecCreate == Init /\ [][NextCreate]_vars

----------------------------------------------------------------------------
(* The frame specification: every operation on records, with patches that
   name the fields fixed at creation *)

FramePayloads == {p \in Payloads : p.expense_type = "accrued" /\ p.amount = Cent}
FramePatches == {[amount |-> Cent + SubCent], [expense_type |-> "ordinary"]}

NextFrame ==
    \/ Tick
    \/ \E p \in FramePayloads : Submit(TheUser, p, AccruedLookup, Today)
    \/ \E id \in Ids : Approve(id, None)
    \/ \E id \in Ids : Reject(id)
    \/ \E id \in Ids, f \in FramePatches : UpdateFields(id, f)
    \/ \E id \in Ids : ClearAccrued(id, Cent)
    \/ \E id \in Ids, f \in Filenames : AddReceipt(id, f, ReceiptUrl(f))

SpecFrame == Init /\ [][NextFrame]_vars

----------------------------------------------------------------------------
(* The store's own get and delete, and the cash aggregation *)

(* A returned record: items holds it, and is empty for None *)
RespRecord(op, id, store) ==
    [op |-> op, id |-> id, arg |-> 0, ok |-> id \in DOMAIN store, user |-> NoCaller,
     items |-> IF id \in DOMAIN store THEN {store[id]} ELSE {},
     range |-> <<>>, detail |-> ""]

(* PendingStore.get: self._data.get(key) *)
StoreGet(id) ==
    /\ last' = RespRecord("store_get", id, data)
    /\ UNCHANGED <<data, disk, now, submitter, threadVars>>

(* PendingStore.delete: False for an unknown key, else del, _save, True *)
Delete(id) ==
    /\ IF id \notin DOMAIN data
       THEN /\ last' = Resp("store_delete", id, FALSE, NoCaller)
            /\ UNCHANGED <<data, disk>>
       ELSE /\ data' = StoreDelete(data, id)
            /\ disk' = data'
            /\ last' = Resp("store_delete", id, TRUE, NoCaller)
    /\ UNCHANGED <<now, submitter, threadVars>>

RECURSIVE SumOfAmounts(_, _)
SumOfAmounts(store, ids) ==
    IF ids = {} THEN 0
    ELSE LET id == CHOOSE x \in ids : TRUE
         IN  store[id]["amount"] + SumOfAmounts(store, ids \ {id})

(* pending_total_for_account: the amounts of the pending records paid
   through the account *)
PendingTotal(store, account_id) ==
    SumOfAmounts(store, {id \in DOMAIN store :
                            /\ store[id]["status"] = "pending"
                            /\ store[id]["paid_through_account_id"] = account_id})

PendingTotalForAccount(account_id) ==
    /\ last' = RespArg("pending_total", 0, PendingTotal(data, account_id), TRUE)
    /\ UNCHANGED <<data, disk, now, submitter, threadVars>>

(* The store specification: records come, are approved, patched and
   deleted, and are read in every way the store offers *)
StorePayloads == {p \in Payloads : p.amount = Cent}
StorePatches == {[balance |-> None]}

NextStore ==
    \/ Tick
    \/ \E p \in StorePayloads : Submit(TheUser, p, AccruedLookup, Today)
    \/ \E id \in Ids : Approve(id, None)
    \/ \E id \in Ids, f \in StorePatches : UpdateFields(id, f)
    \/ \E id \in Ids : Delete(id)
    \/ \E id \in Ids : StoreGet(id)
    \/ \E inc \in BOOLEAN : ListAccrued(TheUser, inc)
    \/ ListApproved(TheUser, None, None, Today)
    \/ \E a \in {"P1", AccruedAccount} : PendingTotalForAccount(a)

SpecStore == Init /\ [][NextStore]_vars

----------------------------------------------------------------------------
(* The store's list_approved called directly: the request is kept in the
   response, arg the calendar date of the call, range the bounds asked for *)

StoreListApprovedCall(start_date, end_date, default_current_month, today) ==
    /\ last' = [op |-> "store_list_approved", id |-> 0, arg |-> today, ok |-> TRUE,
                user |-> NoCaller,
                items |-> StoreListApproved(data, start_date, end_date,
                                            default_current_month, today),
                range |-> <<start_date, end_date>>,
                detail |-> IF default_current_month
                           THEN "default_current_month" ELSE ""]
    /\ UNCHANGED <<data, disk, now, submitter, threadVars>>

(* The listing specification: records dated on both sides of a month's
   bounds, listed in December and in January *)
ListTodays == {Today, <<2025, 1, 20>>}
ListPayloads == {p \in VisPayloads : p.paid_through_account_id = "P1"}

NextList ==
    \/ Tick
    \/ \E p \in ListPayloads : Submit(TheUser, p, AccruedLookup, Today)
    \/ \E id \in Ids : Approve(id, None)
    \/ \E r \in Ranges, dcm \in BOOLEAN, today \in ListTodays :
          StoreListApprovedCall(r[1], r[2], dcm, today)

SpecList == Init /\ [][NextList]_vars

----------------------------------------------------------------------------
(* The file at PendingStore.path, loading it and crashing while saving it.
   disk is the parsed content of a complete file; the two values below are
   files that hold no complete JSON document (0 is no expense_id). *)

NoFile == (0 :> "missing")
TornFile == (0 :> "torn")

(* _load that lets json.load's exception through, _data left as it was
   read *)
ParseFileStrict(file) == file

(* 88-96: no file, or a file json.load cannot read, gives {} *)
ParseFile(file) == IF 0 \in DOMAIN file THEN <<>> ELSE file

(* _ensure_clearing_ids, which line 98 calls: it touches no key followed
   here *)
EnsureClearingIds(store) == store

(* _load as the first statement of whichever operation comes first *)
Load ==
    /\ ~loaded
    /\ loaded' = TRUE
    /\ data' = EnsureClearingIds(ParseFile(disk))
    /\ UNCHANGED <<disk, now, last, submitter, lock, pc, t_amt, t_bal, t_read, t_req>>

(* What a crash inside _save can leave at path: the old file (before
   open), a truncated or partly written file (open(path, "w") truncates and
   json.dump writes into it), the new file (after the dump) *)
SaveCrashFiles(old, new) == {old, TornFile, new}

(* A mutation has built post in memory and the process dies in its _save;
   the restarted process has an empty, unloaded store.  The response keeps
   the records before and after the mutation. *)
CrashInSave(post) ==
    /\ loaded
    /\ \E file \in SaveCrashFiles(disk, post) : disk' = file
    /\ data' = <<>>
    /\ loaded' = FALSE
    /\ last' = [op |-> "crash", id |-> 0, arg |-> 0, ok |-> FALSE, user |-> NoCaller,
                items |-> {data, post}, range |-> <<>>, detail |-> ""]
    /\ UNCHANGED <<now, submitter, lock, pc, t_amt, t_bal, t_read, t_req>>

(* The crash specification: records are stored and approved; an approve or
   a delete crashes in its save; the store is loaded again *)
CrashPayloads == {p \in Payloads : p.expense_type = "ordinary" /\ p.amount = Cent}

NextCrash ==
    \/ Tick
    \/ Load
    \/ loaded /\ \E p \in CrashPayloads : Submit(TheUser, p, AccruedLookup, Today)
    \/ loaded /\ \E id \in Ids : Approve(id, None)
    \/ \E id \in DOMAIN data :
          CrashInSave([data EXCEPT ![id] = Approved(@, None, now)])
    \/ \E id \in DOMAIN data : CrashInSave(StoreDelete(data, id))

SpecCrash == Init /\ [][NextCrash]_vars

----------------------------------------------------------------------------
(* Starting on a file left by an earlier run *)

(* Records as an earlier run persisted them *)
PersistedPending ==
    Normalized(CreateRecord(CHOOSE p \in Payloads :
                                p.expense_type = "ordinary" /\ p.amount = Cent,
                            AccruedLookup, TheUser, Today))
PersistedAccrued ==
    Approved(Normalized(CreateRecord(CHOOSE p \in Payloads :
                                p.expense_type = "accrued" /\ p.amount = Cent,
                            AccruedLookup, TheUser, Today)), None, 1)

(* The files the store may find at its path *)
StartFiles ==
    {NoFile, TornFile, (1 :> PersistedPending),
     (1 :> PersistedAccrued) @@ (2 :> PersistedPending)}

(* A constructed store (73-81): nothing loaded, whatever file is there *)
InitStartup ==
    /\ data = <<>>
    /\ disk \in StartFiles
    /\ now = 1
    /\ last = Resp("none", 0, TRUE, NoCaller)
    /\ submitter = <<>>
    /\ lock = 0
    /\ pc = [t \in Threads |-> "idle"]
    /\ t_amt = [t \in Threads |-> 0]
    /\ t_bal = [t \in Threads |-> 0]
    /\ loaded = FALSE
    /\ t_read = [t \in Threads |-> <<>>]
    /\ t_req = [t \in Threads |-> <<>>]

NextStartup ==
    \/ Tick
    \/ Load
    \/ loaded /\ \E id \in Ids : StoreGet(id)
    \/ loaded /\ \E inc \in BOOLEAN : ListAccrued(TheUser, inc)
    \/ loaded /\ StoreListApprovedCall(None, None, FALSE, Today)
    \/ loaded /\ \E id \in Ids : Approve(id, None)
    \/ /\ loaded
       /\ NextId \notin DOMAIN data     \* the clock is past every stored id
       /\ \E p \in CrashPayloads : Submit(TheUser, p, AccruedLookup, Today)

SpecStartup == InitStartup /\ [][NextStartup]_vars

----------------------------------------------------------------------------
(* clear_accrued statement by statement, run by concurrent threads.  rec is
   a reference into _data, so every assignment to rec writes the store. *)

(* A lock that never excludes *)
LockFreeAlways(l) == TRUE

(* threading.Lock: acquired only when no thread holds it *)
LockFree(l) == l = 0

(* 397-402: _load() finds the store loaded; amt is checked before the lock *)
ClearCall(t, amt) ==
    /\ pc[t] = "idle"
    /\ t_amt' = [t_amt EXCEPT ![t] = amt]
    /\ pc' = [pc EXCEPT ![t] = IF ClearAmountOk(amt) THEN "acquire" ELSE "failed"]
    /\ UNCHANGED <<data, disk, now, last, submitter, loadVars, t_req, lock, t_bal>>

(* 404: with self._lock *)
ClearAcquire(t) ==
    /\ pc[t] = "acquire"
    /\ LockFree(lock)
    /\ lock' = t
    /\ pc' = [pc EXCEPT ![t] = "read"]
    /\ UNCHANGED <<data, disk, now, last, submitter, loadVars, t_req, t_amt, t_bal>>

(* 405-416: the guards, then bal is read from the record; a failed guard
   returns None and leaves the with block *)
ClearRead(t, id) ==
    /\ pc[t] = "read"
    /\ IF ClearRecordOk(data, id)
       THEN /\ t_bal' = [t_bal EXCEPT ![t] = ClearReadBalance(data[id])]
            /\ pc' = [pc EXCEPT ![t] = "write"]
            /\ UNCHANGED lock
       ELSE /\ pc' = [pc EXCEPT ![t] = "failed"]
            /\ lock' = 0
            /\ UNCHANGED t_bal
    /\ UNCHANGED <<data, disk, now, last, submitter, loadVars, t_req, t_amt>>

(* 418-422: rec["balance"] = new_bal *)
ClearWrite(t, id) ==
    /\ pc[t] = "write"
    /\ data' = [data EXCEPT ![id] =
                  DictUpdate(@, [balance |-> Some(ClearNewBal(t_bal[t], t_amt[t]))])]
    /\ pc' = [pc EXCEPT ![t] = "append"]
    /\ UNCHANGED <<disk, now, last, submitter, loadVars, t_req, lock, t_amt, t_bal>>

(* 423-435: the event is appended to rec["clearing"] *)
ClearAppend(t, id) ==
    /\ pc[t] = "append"
    /\ data' = [data EXCEPT ![id] =
                  DictUpdate(@, [clearing |->
                      Append(data[id]["clearing"], ClearEvent(t_amt[t]))])]
    /\ pc' = [pc EXCEPT ![t] = "recompute"]
    /\ UNCHANGED <<disk, now, last, submitter, loadVars, t_req, lock, t_amt, t_bal>>

(* 437-444: the balance from the ledger, and cleared_at *)
ClearRecompute(t, id) ==
    /\ pc[t] = "recompute"
    /\ LET balance == ClearBalance(data[id]["amount"], data[id]["clearing"])
       IN  data' = [data EXCEPT ![id] =
                      DictUpdate(@, [balance |-> Some(balance),
                                     cleared_at |-> ClearedAt(data[id], balance, now)])]
    /\ pc' = [pc EXCEPT ![t] = "save"]
    /\ UNCHANGED <<disk, now, last, submitter, loadVars, t_req, lock, t_amt, t_bal>>

(* 446: self._save() writes the whole of _data *)
ClearSave(t) ==
    /\ pc[t] = "save"
    /\ disk' = data
    /\ pc' = [pc EXCEPT ![t] = "release"]
    /\ UNCHANGED <<data, now, last, submitter, loadVars, t_req, lock, t_amt, t_bal>>

(* 447: return rec leaves the with block, which releases the lock *)
ClearRelease(t) ==
    /\ pc[t] = "release"
    /\ lock' = 0
    /\ pc' = [pc EXCEPT ![t] = "ok"]
    /\ UNCHANGED <<data, disk, now, last, submitter, loadVars, t_req, t_amt, t_bal>>

(* One accrued record is submitted and approved; then the threads clear it *)
AccruedPayloads == {p \in Payloads : p.expense_type = "accrued" /\ p.amount > 0}

NextConc ==
    \/ data = <<>> /\ \E p \in AccruedPayloads : Submit(TheUser, p, AccruedLookup, Today)
    \/ \E id \in DOMAIN data :
          /\ data[id]["status"] = "pending"
          /\ Approve(id, None)
    \/ \E t \in Threads, amt \in ClearAmounts \cup {0} :
          /\ \E id \in DOMAIN data : data[id]["status"] = "approved"
          /\ ClearCall(t, amt)
    \/ \E t \in Threads : ClearAcquire(t)
    \/ \E t \in Threads, id \in DOMAIN data : ClearRead(t, id)
    \/ \E t \in Threads, id \in DOMAIN data : ClearWrite(t, id)
    \/ \E t \in Threads, id \in DOMAIN data : ClearAppend(t, id)
    \/ \E t \in Threads, id \in DOMAIN data : ClearRecompute(t, id)
    \/ \E t \in Threads : ClearSave(t)
    \/ \E t \in Threads : ClearRelease(t)

SpecConc == Init /\ [][NextConc]_vars

----------------------------------------------------------------------------
(* Lazy loading under concurrency (SpecLazy): _load statement by statement,
   called by two request threads. _load takes no lock (83-98); add_pending
   and get take the lock only after _load has returned (203, 215). *)

(* The calls a thread makes: add_pending or get *)
LazyOps == {"add", "get"}

(* Where a thread stands inside _load and where it goes after it *)
LazyLabel ==
    [add |-> [mark |-> "add_mark", read |-> "add_read", assign |-> "add_assign",
              body |-> "add_acquire"],
     get |-> [mark |-> "get_mark", read |-> "get_read", assign |-> "get_assign",
              body |-> "get_acquire"]]

(* 84-85: if self._loaded: return *)
LoadTest(t, op) ==
    /\ pc[t] = "idle"
    /\ pc' = [pc EXCEPT ![t] = IF loaded THEN LazyLabel[op].body
                                         ELSE LazyLabel[op].mark]
    /\ UNCHANGED <<data, disk, now, last, submitter, lock, t_amt, t_bal, loadVars, t_req>>

(* 86: self._loaded = True, before anything has been read *)
LoadMark(t, op) ==
    /\ pc[t] = LazyLabel[op].mark
    /\ loaded' = TRUE
    /\ pc' = [pc EXCEPT ![t] = LazyLabel[op].read]
    /\ UNCHANGED <<data, disk, now, last, submitter, lock, t_amt, t_bal, t_read, t_req>>

(* 88-96: the file is opened and parsed; the result is not yet in _data *)
LoadRead(t, op) ==
    /\ pc[t] = LazyLabel[op].read
    /\ t_read' = [t_read EXCEPT ![t] = ParseFile(disk)]
    /\ pc' = [pc EXCEPT ![t] = LazyLabel[op].assign]
    /\ UNCHANGED <<data, disk, now, last, submitter, lock, t_amt, t_bal, loaded, t_req>>

(* 90, 94, 96, 98: self._data = ..., replacing whatever _data held *)
LoadAssign(t, op) ==
    /\ pc[t] = LazyLabel[op].assign
    /\ data' = EnsureClearingIds(t_read[t])
    /\ pc' = [pc EXCEPT ![t] = LazyLabel[op].body]
    /\ UNCHANGED <<disk, now, last, submitter, lock, t_amt, t_bal, loadVars, t_req>>

(* 203, 215: with self._lock *)
LazyAcquire(t, op) ==
    /\ pc[t] = LazyLabel[op].body
    /\ LockFree(lock)
    /\ lock' = t
    /\ pc' = [pc EXCEPT ![t] = IF op = "add" THEN "add_store" ELSE "get_return"]
    /\ UNCHANGED <<data, disk, now, last, submitter, t_amt, t_bal, loadVars, t_req>>

(* 204: self._data[expense_id] = normalized *)
AddStore(t, user, p, acc, today) ==
    /\ pc[t] = "add_store"
    /\ CreateError(p, acc) = ""
    /\ data' = (NextId :> Normalized(CreateRecord(p, acc, user, today))) @@ data
    /\ submitter' = (NextId :> user.user_id) @@ submitter
    /\ pc' = [pc EXCEPT ![t] = "add_save"]
    /\ UNCHANGED <<disk, now, last, lock, t_amt, t_bal, loadVars, t_req>>

(* 205: self._save() writes the whole of _data *)
AddSave(t) ==
    /\ pc[t] = "add_save"
    /\ disk' = data
    /\ pc' = [pc EXCEPT ![t] = "add_return"]
    /\ UNCHANGED <<data, now, last, submitter, lock, t_amt, t_bal, loadVars, t_req>>

(* 207: return normalized leaves the with block *)
AddReturn(t) ==
    /\ pc[t] = "add_return"
    /\ lock' = 0
    /\ pc' = [pc EXCEPT ![t] = "idle"]
    /\ UNCHANGED <<data, disk, now, last, submitter, t_amt, t_bal, loadVars, t_req>>

(* 216: return self._data.get(key) leaves the with block *)
GetReturn(t, id) ==
    /\ pc[t] = "get_return"
    /\ last' = RespRecord("store_get", id, data)
    /\ lock' = 0
    /\ pc' = [pc EXCEPT ![t] = "idle"]
    /\ UNCHANGED <<data, disk, now, submitter, t_amt, t_bal, loadVars, t_req>>

(* The ids of the records the file holds before the process starts; ids
   are clock readings, so they lie before the clock of InitLazy *)
PersistedIds == {1}

(* A process started over a file that holds a record; the clock stands
   still, so that the calls of both threads fall into one reading of it *)
InitLazy ==
    /\ data = <<>>
    /\ disk \in {(1 :> PersistedPending), (1 :> PersistedAccrued)}
    /\ now = 2
    /\ last = Resp("none", 0, TRUE, NoCaller)
    /\ submitter = <<>>
    /\ lock = 0
    /\ pc = [t \in Threads |-> "idle"]
    /\ t_amt = [t \in Threads |-> 0]
    /\ t_bal = [t \in Threads |-> 0]
    /\ loaded = FALSE
    /\ t_read = [t \in Threads |-> <<>>]
    /\ t_req = [t \in Threads |-> <<>>]

NextLazy ==
    \/ \E t \in Threads, op \in LazyOps : LoadTest(t, op)
    \/ \E t \in Threads, op \in LazyOps : LoadMark(t, op)
    \/ \E t \in Threads, op \in LazyOps : LoadRead(t, op)
    \/ \E t \in Threads, op \in LazyOps : LoadAssign(t, op)
    \/ \E t \in Threads, op \in LazyOps : LazyAcquire(t, op)
    \/ \E t \in Threads, p \in CrashPayloads :
          AddStore(t, TheUser, p, AccruedLookup, Today)
    \/ \E t \in Threads : AddSave(t)
    \/ \E t \in Threads : AddReturn(t)
    \/ \E t \in Threads, id \in PersistedIds : GetReturn(t, id)

SpecLazy == InitLazy /\ [][NextLazy]_vars

----------------------------------------------------------------------------
(* DELETE /{expense_id} statement by statement (SpecDelete): delete_expense
   holds no lock between its get, its checks and its delete; approve and
   reject hold the store's lock for their whole body, so they stay single
   steps. One delete request is followed at a time, made by thread 1. *)

(* 185-187: exp = pending_store.get(expense_id); 404 when there is none.
   exp is the dict the store holds, not a copy. *)
DelGet(t, user, id) ==
    /\ pc[t] = "idle"
    /\ IF id \notin DOMAIN data
       THEN /\ last' = RespHttp("delete", id, user, 404)
            /\ UNCHANGED <<pc, t_req>>
       ELSE /\ t_req' = [t_req EXCEPT ![t] = [user |-> user, id |-> id]]
            /\ pc' = [pc EXCEPT ![t] = "del_check"]
            /\ UNCHANGED last
    /\ UNCHANGED <<data, disk, now, submitter, lock, t_amt, t_bal, loadVars>>

(* 189-193: the checks for a caller who is no admin, read from exp as it
   is at this moment *)
DelCheck(t) ==
    /\ pc[t] = "del_check"
    /\ LET status_code == DeleteExpenseStatus(data, t_req[t].user, t_req[t].id)
       IN  IF status_code = 200
           THEN /\ pc' = [pc EXCEPT ![t] = "del_delete"]
                /\ UNCHANGED last
           ELSE /\ pc' = [pc EXCEPT ![t] = "idle"]
                /\ last' = RespHttp("delete", t_req[t].id, t_req[t].user, status_code)
    /\ UNCHANGED <<data, disk, now, submitter, lock, t_amt, t_bal, loadVars, t_req>>

(* 195-196: pending_store.delete(expense_id), whatever the record has
   become, then {"ok": True} *)
DelDelete(t) ==
    /\ pc[t] = "del_delete"
    /\ LockFree(lock)
    /\ data' = StoreDelete(data, t_req[t].id)
    /\ disk' = data'
    /\ last' = RespHttp("delete", t_req[t].id, t_req[t].user, 200)
    /\ pc' = [pc EXCEPT ![t] = "idle"]
    /\ UNCHANGED <<now, submitter, lock, t_amt, t_bal, loadVars, t_req>>

NextDelete ==
    \/ Tick
    \/ /\ NextId \notin DOMAIN data
       /\ \E u \in Submitters, p \in CrashPayloads : Submit(u, p, AccruedLookup, Today)
    \/ \E id \in Ids, f \in VisPatches : UpdateFields(id, f)
    \/ \E id \in Ids : Approve(id, None)
    \/ \E id \in Ids : Reject(id)
    \/ \E c \in Callers, id \in Ids : DelGet(1, c, id)
    \/ DelCheck(1)
    \/ DelDelete(1)

SpecDelete == Init /\ [][NextDelete]_vars

----------------------------------------------------------------------------
(* The lock on every path (SpecLock): approve statement by statement, next
   to clear_accrued, add_pending and get, with the path on which _save
   raises inside the with block *)

(* with self._lock that keeps the lock when its block is left *)
WithExitHeld(l) == l

(* with self._lock: leaving the block, by return or by an exception,
   releases the lock *)
WithExit(l) == 0

(* 349-350: _load() finds the store loaded; key = str(expense_id) *)
ApproveCall(t, id) ==
    /\ pc[t] = "idle"
    /\ t_req' = [t_req EXCEPT ![t] = [user |-> NoCaller, id |-> id]]
    /\ pc' = [pc EXCEPT ![t] = "apr_acquire"]
    /\ UNCHANGED <<data, disk, now, last, submitter, lock, t_amt, t_bal, loadVars>>

(* 352: with self._lock *)
ApproveAcquire(t) ==
    /\ pc[t] = "apr_acquire"
    /\ LockFree(lock)
    /\ lock' = t
    /\ pc' = [pc EXCEPT ![t] = "apr_body"]
    /\ UNCHANGED <<data, disk, now, last, submitter, t_amt, t_bal, loadVars, t_req>>

(* 353-363: return False for an unknown key, which leaves the with block;
   else the record is marked approved *)
ApproveBody(t) ==
    /\ pc[t] = "apr_body"
    /\ IF t_req[t].id \notin DOMAIN data
       THEN /\ lock' = WithExit(lock)
            /\ pc' = [pc EXCEPT ![t] = "failed"]
            /\ UNCHANGED data
       ELSE /\ data' = [data EXCEPT ![t_req[t].id] = Approved(@, None, now)]
            /\ pc' = [pc EXCEPT ![t] = "save"]
            /\ UNCHANGED lock
    /\ UNCHANGED <<disk, now, last, submitter, t_amt, t_bal, loadVars, t_req>>

(* 100-108: _save raises (the directory cannot be made, the file cannot be
   opened or written); the file is as it was, or cut short *)
SaveRaises(t) ==
    /\ pc[t] \in {"save", "add_save"}
    /\ disk' \in {disk, TornFile}
    /\ pc' = [pc EXCEPT ![t] = "unwind"]
    /\ UNCHANGED <<data, now, last, submitter, lock, t_amt, t_bal, loadVars, t_req>>

(* the exception leaves the with block on its way to the caller *)
Unwind(t) ==
    /\ pc[t] = "unwind"
    /\ lock' = WithExit(lock)
    /\ pc' = [pc EXCEPT ![t] = "raised"]
    /\ UNCHANGED <<data, disk, now, last, submitter, t_amt, t_bal, loadVars, t_req>>

(* A thread's try for the lock *)
Acquire(t) ==
    \/ ClearAcquire(t)
    \/ ApproveAcquire(t)
    \/ \E op \in LazyOps : LazyAcquire(t, op)

(* A thread's steps while it holds the lock; the record clear_accrued is
   called for is the one the store holds *)
Locked(t) ==
    \/ \E id \in DOMAIN data : ClearRead(t, id)
    \/ \E id \in DOMAIN data : ClearWrite(t, id)
    \/ \E id \in DOMAIN data : ClearAppend(t, id)
    \/ \E id \in DOMAIN data : ClearRecompute(t, id)
    \/ ClearSave(t)
    \/ ClearRelease(t)
    \/ ApproveBody(t)
    \/ \E p \in CrashPayloads : AddStore(t, TheUser, p, AccruedLookup, Today)
    \/ AddSave(t)
    \/ AddReturn(t)
    \/ \E id \in Ids : GetReturn(t, id)
    \/ SaveRaises(t)
    \/ Unwind(t)

(* One record is submitted; then the threads make their calls. The clock
   stands still, so add_pending keeps writing the one id. *)
NextLock ==
    \/ data = <<>> /\ \E p \in AccruedPayloads : Submit(TheUser, p, AccruedLookup, Today)
    \/ \E t \in Threads, amt \in ClearAmounts \cup {0} :
          /\ data # <<>>
          /\ ClearCall(t, amt)
    \/ \E t \in Threads, id \in Ids : ApproveCall(t, id)
    \/ \E t \in Threads, op \in LazyOps : LoadTest(t, op)
    \/ \E t \in Threads : Acquire(t)
    \/ \E t \in Threads : Locked(t)

(* A thread that can take a step takes one; a thread that waits for the
   lock is not passed over for ever *)
LockFairness ==
    \A t \in Threads : WF_vars(Locked(t)) /\ SF_vars(Acquire(t))

SpecLock == Init /\ [][NextLock]_vars /\ LockFairness

----------------------------------------------------------------------------
(* The clearing event in full (SpecClear): clear_accrued with all its
   keyword arguments, the alias add_clearing, and POST /{expense_id}/clear.
   source_payment_id, receipts and created_at are not followed. *)

(* Python's "x or ''" over an optional string *)
OrEmpty(v) == IF v = None THEN "" ELSE v[1]

(* Python's "a or b" over optional strings *)
OrElse(a, b) == IF a = None \/ a = Some("") THEN b ELSE a

(* 423-433: the event appended to rec["clearing"] *)
ClearingEntry(amt, paid_through_account_id, paid_through_account_name, clearing_date, reference_number) ==
    [amount |-> amt,
     paid_through_account_id |-> paid_through_account_id,
     paid_through_account_name |-> OrEmpty(paid_through_account_name),
     date |-> OrEmpty(clearing_date),
     reference_number |-> OrEmpty(reference_number)]

(* PendingStore.clear_accrued as a function of the store: the store after
   the call, the same store when a guard returns None *)
ClearAccruedStore(store, id, amount, paid_through_account_id, paid_through_account_name, clearing_date, reference_number, t) ==
    IF ~(ClearAmountOk(amount) /\ ClearRecordOk(store, id))
    THEN store
    ELSE LET rec == store[id]
             clearing == Append(rec["clearing"],
                                ClearingEntry(amount, paid_through_account_id,
                                              paid_through_account_name,
                                              clearing_date, reference_number))
             balance == ClearBalance(rec["amount"], clearing)
         IN  [store EXCEPT ![id] =
                 DictUpdate(rec, [balance |-> Some(balance),
                                  clearing |-> clearing,
                                  cleared_at |-> ClearedAt(rec, balance, t)])]

(* PendingStore.add_clearing: it has no reference_number parameter and
   passes none on *)
AddClearingStore(store, id, amount, paid_through_account_id, paid_through_account_name, date, clearing_date, t) ==
    ClearAccruedStore(store, id, amount, paid_through_account_id,
                      paid_through_account_name, OrElse(date, clearing_date),
                      None, t)

(* A direct call of clear_accrued; last.items is the request *)
ClearAccruedWith(id, req) ==
    /\ id \in DOMAIN data => Len(data[id]["clearing"]) < MaxClearing
    /\ data' = ClearAccruedStore(data, id, req.amount, req.paid_through_account_id,
                                 req.paid_through_account_name, req.date,
                                 req.reference_number, now)
    /\ disk' = IF ClearAmountOk(req.amount) /\ ClearRecordOk(data, id)
               THEN data' ELSE disk
    /\ last' = [RespArg("clear_accrued", id, req.amount,
                        ClearAmountOk(req.amount) /\ ClearRecordOk(data, id))
                    EXCEPT !.items = {req}]
    /\ UNCHANGED <<now, submitter, threadVars>>

(* The fields of ClearingPayload (accrued.py:15-20) *)
ClearingPayloadFields ==
    {"paid_through_account_id", "amount", "date", "reference_number", "description"}

(* POST /{expense_id}/clear by an admin. The arguments of add_clearing are
   evaluated first: payload.paid_through_account_name names no field of
   ClearingPayload, so the attribute access raises and the request ends
   with 500 before the store is called. payload.reference_number is not
   read at all. *)
HttpClearAccrued(id, payload) ==
    /\ id \in DOMAIN data => Len(data[id]["clearing"]) < MaxClearing
    /\ IF "paid_through_account_name" \notin ClearingPayloadFields
       THEN /\ last' = [RespHttp("http_clear", id, Caller("admin", TRUE, {}), 500)
                           EXCEPT !.items = {payload}]
            /\ UNCHANGED <<data, disk>>
       ELSE LET updated == AddClearingStore(data, id, payload.amount,
                                            payload.paid_through_account_id,
                                            payload["paid_through_account_name"],
                                            None, payload.date, now)
                ok == ClearAmountOk(payload.amount) /\ ClearRecordOk(data, id)
            IN  /\ data' = updated
                /\ disk' = IF ok THEN data' ELSE disk
                /\ last' = [RespHttp("http_clear", id, Caller("admin", TRUE, {}),
                                     IF ok THEN 200 ELSE 400)
                               EXCEPT !.items = {payload}]
    /\ UNCHANGED <<now, submitter, threadVars>>

(* The requests: with and without a date and a reference number *)
ClearDates == {None, Some("2025-01-05")}
References == {None, Some("REF-1")}

ClearRequests ==
    {[amount |-> a, paid_through_account_id |-> "P1",
      paid_through_account_name |-> n, date |-> d, reference_number |-> r] :
        a \in {Cent, 0}, n \in {None, Some("Cash")}, d \in ClearDates,
        r \in References}

ClearHttpPayloads ==
    {[amount |-> a, paid_through_account_id |-> "P1", date |-> d,
      reference_number |-> r, description |-> None] :
        a \in {Cent, 0}, d \in ClearDates, r \in References}

NextClear ==
    \/ Tick
    \/ data = <<>> /\ \E p \in AccruedPayloads : Submit(TheUser, p, AccruedLookup, Today)
    \/ \E id \in DOMAIN data : data[id]["status"] = "pending" /\ Approve(id, None)
    \/ \E id \in Ids, req \in ClearRequests : ClearAccruedWith(id, req)
    \/ \E id \in Ids, payload \in ClearHttpPayloads : HttpClearAccrued(id, payload)

SpecClear == Init /\ [][NextClear]_vars

----------------------------------------------------------------------------
(* The accrued listing by itself (SpecAccrued): records of both types in
   every status, with a balance, without one, and cleared in full. Each
   id is submitted once, a record is approved or rejected while it is
   pending, loses its balance key before it is cleared, and is cleared
   while it has a balance. *)

AccruedListPayloads ==
    {p \in Payloads : p.amount = Cent /\ p.paid_through_account_id = "P1"}

NextAccrued ==
    \/ Tick
    \/ /\ NextId \notin DOMAIN data
       /\ \E p \in AccruedListPayloads : Submit(TheUser, p, AccruedLookup, Today)
    \/ \E id \in DOMAIN data : data[id]["status"] = "pending" /\ Approve(id, None)
    \/ \E id \in DOMAIN data : data[id]["status"] = "pending" /\ Reject(id)
    \/ \E id \in DOMAIN data, f \in StorePatches :
          /\ data[id]["status"] = "approved"
          /\ data[id]["clearing"] = <<>>
          /\ UpdateFields(id, f)
    \/ \E id \in DOMAIN data :
          /\ ClearReadBalance(data[id]) > 0
          /\ ClearAccrued(id, Cent)
    \/ \E inc \in BOOLEAN : ListAccrued(TheUser, inc)

SpecAccrued == Init /\ [][NextAccrued]_vars

----------------------------------------------------------------------------
(* Claims about the ledger and the lifecycle, checked under Spec *)

IsAccrued(rec) == rec["expense_type"] = "accrued"
WholeCents(rec) ==
    /\ rec["amount"] % Cent = 0
    /\ \A i \in 1 .. Len(rec["clearing"]) : rec["clearing"][i].amount % Cent = 0
JustCleared(id) == last.op = "clear" /\ last.ok /\ last.id = id

(* C1 as the spec states it: after successful clears whose total is at most
   the amount, balance = amount - sum of the clearing amounts; balance >= 0. *)
C1_BalanceExact ==
    \A id \in DOMAIN data :
        LET rec == data[id]
            total == SumAmounts(rec["clearing"])
        IN  /\ rec["balance"] # None => rec["balance"][1] >= 0
            /\ (JustCleared(id) /\ total <= rec["amount"])
                    => rec["balance"] = Some(rec["amount"] - total)

(* C1 amended: after successful clears whose total is at most the amount,
   balance = amount - sum rounded to two decimals, which is amount - sum
   itself when the amount and every clearing amount are whole cents; and
   balance >= 0 in every state, also after a clear of more than remains. *)
C1_BalanceRounded ==
    \A id \in DOMAIN data :
        LET rec == data[id]
            total == SumAmounts(rec["clearing"])
        IN  /\ rec["balance"] # None => rec["balance"][1] >= 0
            /\ (JustCleared(id) /\ total <= rec["amount"])
                    => /\ rec["balance"] = Some(Round2(rec["amount"] - total))
                       /\ WholeCents(rec)
                            => rec["balance"] = Some(rec["amount"] - total)
            /\ (JustCleared(id) /\ total > rec["amount"])
                    => rec["balance"] = Some(0)

C1_Witness ==
    \E id \in DOMAIN data :
        /\ JustCleared(id)
        /\ Len(data[id]["clearing"]) = 2
        /\ SumAmounts(data[id]["clearing"]) = data[id]["amount"]
        /\ data[id]["balance"] = Some(0)

(* C2: the sum of the clearing amounts equals amount - balance, stated here
   for whole-cent records right after a successful clear, over-paying clears
   included. *)
C2_LedgerIdentity ==
    \A id \in DOMAIN data :
        (JustCleared(id) /\ WholeCents(data[id]))
            => SumAmounts(data[id]["clearing"])
                  = data[id]["amount"] - data[id]["balance"][1]

(* C3: a record that is approved or rejected never changes status again,
   stated here for the steps of approve, reject and clear. *)
C3_StatusTerminal ==
    [][\A id \in DOMAIN data \cap DOMAIN data' :
          (/\ last'.op \in {"approve", "reject", "clear"}
           /\ data[id]["status"] \in {"approved", "rejected"})
              => data'[id]["status"] = data[id]["status"]]_vars

(* C4: every valid submission stores a record with status pending; an
   accrued one has balance = amount, an ordinary one has no balance. *)
C4_SubmitStoresPending ==
    (last.op = "submit" /\ last.ok) =>
        /\ last.id \in DOMAIN data
        /\ data[last.id]["status"] = "pending"
        /\ IsAccrued(data[last.id])
              => data[last.id]["balance"] = Some(data[last.id]["amount"])
        /\ ~IsAccrued(data[last.id]) => data[last.id]["balance"] = None

C4_Witness ==
    /\ last.op = "submit" /\ last.ok
    /\ IsAccrued(data[last.id])
    /\ data[last.id]["balance"] = Some(Cent + SubCent)
    /\ \E id \in DOMAIN data : ~IsAccrued(data[id]) /\ data[id]["balance"] = None

(* C5: clear on a record that is not approved, or is ordinary, fails and
   leaves the store, in memory and on disk, as it was. *)
C5_ClearRefused ==
    [][\A id \in DOMAIN data :
          (/\ last'.op = "clear" /\ last'.id = id
           /\ \/ data[id]["status"] # "approved"
              \/ ~IsAccrued(data[id]))
              => (~last'.ok /\ data' = data /\ disk' = disk)]_vars

C5_Witness ==
    /\ last.op = "clear" /\ ~last.ok /\ last.arg > 0
    /\ last.id \in DOMAIN data
    /\ data[last.id]["status"] = "pending"
    /\ IsAccrued(data[last.id])
    /\ \E id \in DOMAIN data :
          id # last.id /\ ~IsAccrued(data[id]) /\ data[id]["status"] = "approved"

(* C6: for an accrued record balance <= amount, and balance never increases
   from one state to the next, stated here for the steps of approve, reject,
   clear and update. *)
C6_BalanceNeverIncreases ==
    [][\A id \in DOMAIN data \cap DOMAIN data' :
          (/\ last'.op \in {"approve", "reject", "clear", "update"}
           /\ IsAccrued(data[id]) /\ IsAccrued(data'[id]))
              => /\ data'[id]["balance"][1] <= data'[id]["amount"]
                 /\ data'[id]["balance"][1] <= data[id]["balance"][1]]_vars

(* C8: a successful submission never takes the id of a stored record: it
   adds one record to the store. *)
C8_SubmitAddsOne ==
    [][\A p \in Payloads :
          (Submit(TheUser, p, AccruedLookup, Today) /\ last'.ok)
              => /\ last'.id \notin DOMAIN data
                 /\ Cardinality(DOMAIN data') = Cardinality(DOMAIN data) + 1]_vars

(* C9: a stored record's created_by is the user who submitted it, after the
   submission and after every later operation. *)
C9_CreatedByKept ==
    \A id \in DOMAIN data : CreatedBy(data[id]) = submitter[id]

----------------------------------------------------------------------------
(* Claims about visibility, checked under SpecVis *)

(* The approved records in the range the last listing asked for *)
ApprovedInRange ==
    {id \in DOMAIN data :
        /\ data[id]["status"] = "approved"
        /\ InRange(data[id]["date"], last.range[1], last.range[2])}

(* C10: the approved listing of a caller who is no admin holds no record
   that the caller did not create and whose paid-through account is not
   allowed, and holds every approved record in range that the caller created
   or whose account is allowed; an admin gets every approved record in range. *)
C10_ApprovedListing ==
    last.op = "list_approved" =>
        IF last.user.is_admin THEN last.items = ApprovedInRange
        ELSE last.items =
                {id \in ApprovedInRange :
                    \/ submitter[id] = last.user.user_id
                    \/ data[id]["paid_through_account_id"]
                          \in last.user.allowed_cash_accounts}

----------------------------------------------------------------------------
(* Claims about concurrent clears, checked under SpecConc *)

InCycle(t) == pc[t] \in {"read", "write", "append", "recompute", "save", "release"}

(* C7: the read-modify-persist cycle of clear is atomic: no two threads are
   inside it together, what a thread read is still the stored balance when
   it writes, the balance it recomputed is the one it persists; and when two
   concurrent clears of one record both succeed, both events are recorded,
   the balance reflects both amounts, and the disk holds that record. *)
C7_ClearAtomic ==
    /\ \A t, u \in Threads : (InCycle(t) /\ InCycle(u)) => t = u
    /\ \A t \in Threads, id \in DOMAIN data :
          /\ pc[t] = "write" => ClearReadBalance(data[id]) = t_bal[t]
          /\ pc[t] \in {"save", "release"} =>
                /\ data[id]["balance"]
                      = Some(ClearBalance(data[id]["amount"], data[id]["clearing"]))
                /\ data[id]["clearing"][Len(data[id]["clearing"])]
                      = ClearEvent(t_amt[t])
          /\ pc[t] = "release" => disk = data
    /\ (\A t \in Threads : pc[t] = "ok") =>
          \A id \in DOMAIN data :
              /\ Len(data[id]["clearing"]) = 2
              /\ \E t, u \in Threads :
                    /\ t # u
                    /\ data[id]["clearing"]
                          = <<ClearEvent(t_amt[t]), ClearEvent(t_amt[u])>>
              /\ data[id]["balance"] =
                    Some(Max(0, Round2(data[id]["amount"] - t_amt[1] - t_amt[2])))
              /\ disk = data

C7_Witness ==
    /\ \A t \in Threads : pc[t] = "ok"
    /\ \E id \in DOMAIN data :
          /\ data[id]["amount"] = Cent + SubCent
          /\ data[id]["clearing"] = <<ClearEvent(SubCent), ClearEvent(Cent)>>
          /\ data[id]["balance"] = Some(0)
          /\ disk = data

----------------------------------------------------------------------------
(* Claims about access, checked under SpecAccess *)

(* What the visibility rule allows a caller to see: a record the caller
   submitted, or one paid through an account the caller is allowed *)
MaySee(user, id) ==
    \/ user.is_admin
    \/ submitter[id] = user.user_id
    \/ data[id]["paid_through_account_id"] \in user.allowed_cash_accounts

(* C11: the accrued listing returned to a caller who is no admin holds no
   record that the caller neither created nor may see through the allowed
   cash accounts. *)
C11_AccruedListing ==
    last.op = "list_accrued" =>
        \A id \in last.items \cap DOMAIN data : MaySee(last.user, id)

(* C12: fetching one record answers a caller who is no admin with the
   record exactly when the caller created it or its paid-through account is
   allowed, and with Forbidden otherwise; an admin gets every stored record;
   an unknown id is NotFound. *)
C12_GetExpense ==
    last.op = "get" =>
        IF last.id \notin DOMAIN data THEN last.arg = 404
        ELSE IF MaySee(last.user, last.id) THEN last.arg = 200
        ELSE last.arg = 403

(* C13: delete removes the record for an admin whatever its status, and for
   a caller who is no admin exactly when that caller submitted the record
   and it is pending; otherwise it answers Forbidden and the record stays. *)
C13_DeleteExpense ==
    [][\A c \in Callers, id \in DOMAIN data :
          DeleteExpense(c, id) =>
              IF \/ c.is_admin
                 \/ submitter[id] = c.user_id /\ data[id]["status"] = "pending"
              THEN last'.ok /\ id \notin DOMAIN data'
              ELSE last'.arg = 403 /\ data' = data /\ disk' = disk]_vars

----------------------------------------------------------------------------
(* More claims about the lifecycle, checked under Spec *)

(* C14: an update is applied only to a pending record; on an approved or
   rejected record it fails and leaves the store as it was. *)
C14_UpdateOnlyPending ==
    [][\A id \in DOMAIN data, f \in Patches :
          UpdateFields(id, f) =>
              IF data[id]["status"] = "pending"
              THEN last'.ok /\ data'[id] = DictUpdate(data[id], f)
              ELSE ~last'.ok /\ data' = data /\ disk' = disk]_vars

----------------------------------------------------------------------------
(* Claims about receipts, checked under SpecReceipt *)

(* C15: attaching a receipt to a pending record appends exactly one entry,
   the one given, at the end of receipts and leaves the earlier entries, the
   record's other fields and the other records as they were; on an approved
   or rejected record, or an unknown id, it fails and leaves the store, in
   memory and on disk, as it was. *)
C15_ReceiptAppended ==
    [][\A id \in Ids, f \in Filenames :
          AddReceipt(id, f, ReceiptUrl(f)) =>
              IF id \in DOMAIN data /\ data[id]["status"] = "pending"
              THEN /\ last'.ok
                   /\ data'[id]["receipts"]
                        = data[id]["receipts"] \o <<Receipt(f, ReceiptUrl(f), now)>>
                   /\ \A k \in DOMAIN data[id] \ {"receipts"} :
                         data'[id][k] = data[id][k]
                   /\ \A other \in DOMAIN data \ {id} : data'[other] = data[other]
                   /\ DOMAIN data' = DOMAIN data
                   /\ disk' = data'
              ELSE ~last'.ok /\ data' = data /\ disk' = disk]_vars

C15_Witness ==
    /\ last.op = "add_receipt" /\ ~last.ok
    /\ last.id \in DOMAIN data
    /\ data[last.id]["status"] = "approved"
    /\ Len(data[last.id]["receipts"]) = 1
    /\ \E id \in DOMAIN data :
          /\ data[id]["status"] = "pending"
          /\ Len(data[id]["receipts"]) = 2
          /\ data[id]["receipts"][1].created_at = 1
          /\ data[id]["receipts"][2].created_at = MaxClock

----------------------------------------------------------------------------
(* Claims about approval, checked under SpecApprove *)

(* The upstream outcome fields of a record *)
UpstreamFields(rec) ==
    <<rec["zoho_posted"], rec["zoho_error"], rec["zoho_response"]>>

(* C16: approve on a record that is approved or rejected reports success
   and leaves status, approved_at and the upstream outcome fields as they
   were. *)
C16_ApproveNonPendingNoOp ==
    [][\A id \in DOMAIN data, o \in UpstreamOutcomes :
          (Approve(id, ZohoResponseArg(o)) /\ data[id]["status"] # "pending")
              => /\ last'.ok
                 /\ data'[id]["status"] = data[id]["status"]
                 /\ Get(data'[id], "approved_at") = Get(data[id], "approved_at")
                 /\ UpstreamFields(data'[id]) = UpstreamFields(data[id])]_vars

(* C17: approve of a pending record makes it approved and sets approved_at;
   after a successful post zoho_posted is true, zoho_error is absent and
   zoho_response is the payload; with no outcome or a failed post the record
   is approved all the same, zoho_posted stays false, and after a failed
   post zoho_error holds the failure. *)
C17_ApproveRecordsOutcome ==
    [][\A id \in DOMAIN data, o \in UpstreamOutcomes :
          (Approve(id, ZohoResponseArg(o)) /\ data[id]["status"] = "pending")
              => /\ last'.ok
                 /\ data'[id]["status"] = "approved"
                 /\ Get(data'[id], "approved_at") = Some(now)
                 /\ o.kind = "success"
                      => UpstreamFields(data'[id]) = <<TRUE, None, Some(o.payload)>>
                 /\ o.kind # "success" => data'[id]["zoho_posted"] = FALSE
                 /\ o.kind = "failed"
                      => data'[id]["zoho_error"] = Some(o.message)]_vars

----------------------------------------------------------------------------
(* More claims about clearing, checked under Spec *)

(* C18: after every successful clear cleared_at is set exactly when the
   balance is zero: absent while a balance remains, set when it reaches
   zero; and a clear of a record whose cleared_at is set keeps its value. *)
C18_ClearedAtIffZero ==
    [][\A id \in DOMAIN data, amt \in ClearAmounts :
          (ClearAccrued(id, amt) /\ last'.ok)
              => /\ data'[id]["cleared_at"] # None
                      <=> data'[id]["balance"] = Some(0)
                 /\ data'[id]["balance"][1] > 0 => data'[id]["cleared_at"] = None
                 /\ data[id]["cleared_at"] # None
                      => data'[id]["cleared_at"] = data[id]["cleared_at"]]_vars

C18_Witness ==
    /\ now = MaxClock
    /\ \E id \in DOMAIN data :
          /\ JustCleared(id)
          /\ Len(data[id]["clearing"]) = 2
          /\ data[id]["balance"] = Some(0)
          /\ data[id]["cleared_at"] = Some(1)
    /\ \E id \in DOMAIN data :
          /\ Len(data[id]["clearing"]) = 1
          /\ data[id]["balance"] = Some(Cent)
          /\ data[id]["cleared_at"] = None

(* C19: the clearing events of a record are append-only: a successful clear
   appends exactly one event, at the end, with the requested amount, and no
   step removes, reorders or changes an event already recorded. *)
C19_ClearingAppendOnly ==
    [][\A id \in DOMAIN data :
          /\ id \in DOMAIN data'
          /\ Len(data'[id]["clearing"]) >= Len(data[id]["clearing"])
          /\ SubSeq(data'[id]["clearing"], 1, Len(data[id]["clearing"]))
                = data[id]["clearing"]
          /\ \A amt \in ClearAmounts :
                (ClearAccrued(id, amt) /\ last'.ok)
                    => data'[id]["clearing"]
                          = Append(data[id]["clearing"], [amount |-> amt])]_vars

(* C20: a clear with an amount of zero or less, or of an id the store does
   not hold, fails and leaves the store, in memory and on disk, as it was:
   no event appended, no balance or cleared_at changed. *)
C20_ClearRejectsBadInput ==
    [][\A id \in Ids, amt \in ClearAmounts \cup BadAmounts :
          (ClearAccrued(id, amt) /\ (amt <= 0 \/ id \notin DOMAIN data))
              => (~last'.ok /\ data' = data /\ disk' = disk)]_vars

C20_Witness ==
    /\ last.op = "clear" /\ ~last.ok /\ last.arg < 0
    /\ last.id \in DOMAIN data
    /\ data[last.id]["status"] = "approved"
    /\ IsAccrued(data[last.id])
    /\ data[last.id]["balance"] = Some(Cent)
    /\ Len(data[last.id]["clearing"]) = 1
    /\ Cardinality(DOMAIN data) = 1

----------------------------------------------------------------------------
(* Claims about submission, checked under SpecCreate *)

(* C21: an accrued submission is stored with the paid-through account the
   chart-of-accounts lookup returned, whatever the caller supplied; when
   the lookup returns nothing the submission fails and nothing is stored. *)
C21_AccruedPaidThroughForced ==
    [][\A p \in {q \in CreatePayloads : q.expense_type = "accrued"},
          acc \in AccruedLookups :
          Submit(TheUser, p, acc, Today)
              => /\ acc = None => (~last'.ok /\ data' = data /\ disk' = disk)
                 /\ last'.ok =>
                      /\ acc # None
                      /\ data'[last'.id]["paid_through_account_id"]
                            = acc[1].account_id]_vars

C21_Witness ==
    /\ last.op = "submit" /\ last.ok
    /\ IsAccrued(data[last.id])
    /\ data[last.id]["paid_through_account_id"] = AccruedAccount
    /\ \A p \in CreatePayloads : p.paid_through_account_id # AccruedAccount

(* The rules of a submission in the order the claim gives them, each with
   the details that report it; <<>> when every rule is met *)
UnmetRules(p, acc) ==
    LET resolvable == IF p.expense_type = "accrued"
                      THEN acc # None /\ acc[1].account_id # ""
                      ELSE p.paid_through_account_id # ""
    IN  (IF p.expense_account_id = ""
            THEN <<{"Expense account is required"}>> ELSE <<>>)
        \o (IF ~resolvable
            THEN <<{"Paid through is required",
                    "Accrued Expenses account not found in COA"}>> ELSE <<>>)
        \o (IF p.amount <= 0 THEN <<{"Amount must be > 0"}>> ELSE <<>>)
        \o (IF p.vendor_id = "" /\ p.vendor_name = ""
            THEN <<{"Select a vendor or enter vendor name"}>> ELSE <<>>)

(* C22: a submission that breaks rules fails with the error of the first
   unmet rule in the order expense account, paid-through account, amount,
   vendor, and leaves the store, in memory and on disk, as it was; a
   submission that breaks none is stored. *)
C22_FirstUnmetRule ==
    [][\A p \in CreatePayloads, acc \in AccruedLookups :
          Submit(TheUser, p, acc, Today) =>
              IF UnmetRules(p, acc) = <<>> THEN last'.ok
              ELSE /\ ~last'.ok
                   /\ last'.detail \in UnmetRules(p, acc)[1]
                   /\ data' = data /\ disk' = disk]_vars

----------------------------------------------------------------------------
(* Claims about what operations leave alone, checked under SpecFrame *)

(* C23: approve, reject, update, clear and attaching a receipt keep every
   record under its id and leave its expense_type and amount as they were. *)
C23_TypeAmountFixed ==
    [][\A id \in DOMAIN data :
          last'.op \in {"approve", "reject", "update", "clear", "add_receipt"}
              => /\ id \in DOMAIN data'
                 /\ data'[id]["expense_type"] = data[id]["expense_type"]
                 /\ data'[id]["amount"] = data[id]["amount"]]_vars

----------------------------------------------------------------------------
(* Claims about the store's get, delete and reads, checked under SpecStore *)

(* C24: delete of a stored id reports true and removes that record and no
   other; delete of an unknown id reports false and changes nothing; get
   finds a record exactly when the id is stored, so a deleted id is not
   found until a record is stored under it again. *)
C24_DeleteRemoves ==
    [][\A id \in Ids :
          /\ Delete(id) =>
                IF id \in DOMAIN data
                THEN /\ last'.ok
                     /\ DOMAIN data' = DOMAIN data \ {id}
                     /\ \A other \in DOMAIN data' : data'[other] = data[other]
                     /\ disk' = data'
                ELSE ~last'.ok /\ data' = data /\ disk' = disk
          /\ StoreGet(id) =>
                /\ last'.ok <=> id \in DOMAIN data
                /\ last'.items = IF id \in DOMAIN data THEN {data[id]} ELSE {}
          /\ (id \notin DOMAIN data /\ id \in DOMAIN data')
                => (last'.op = "submit" /\ last'.id = id)]_vars

C24_Witness ==
    /\ last.op = "store_get" /\ ~last.ok
    /\ last.id \in DOMAIN submitter
    /\ last.id \notin DOMAIN data
    /\ \E other \in DOMAIN data : data[other]["status"] = "approved"

(* C25: get, list_approved, list_accrued and pending_total_for_account
   leave every stored record as it was. *)
C25_ReadsChangeNothing ==
    [][last'.op \in {"store_get", "list_approved", "list_accrued", "pending_total"}
          => data' = data]_vars

----------------------------------------------------------------------------
(* Claims about the date range of list_approved, checked under SpecList *)

(* The approved records dated in [start, end) *)
ApprovedBetween(start, end) ==
    {id \in DOMAIN data :
        /\ data[id]["status"] = "approved"
        /\ ~DateLess(data[id]["date"], start)
        /\ DateLess(data[id]["date"], end)}

(* C26: list_approved returns exactly the approved records whose date field
   is in [start, end): a record dated start is in, one dated end is out;
   asked for no range with the current month as default, the range runs
   from the first of the month of the call to the first of the next month,
   which after December is January of the next year. *)
C26_ApprovedDateRange ==
    last.op = "store_list_approved" =>
        LET today == last.arg
            next_month == IF today[2] = 12 THEN <<today[1] + 1, 1, 1>>
                          ELSE <<today[1], today[2] + 1, 1>>
        IN  /\ (last.range[1] # None /\ last.range[2] # None)
                  => last.items = ApprovedBetween(last.range[1][1], last.range[2][1])
            /\ (last.range = <<None, None>> /\ last.detail = "default_current_month")
                  => last.items = ApprovedBetween(<<today[1], today[2], 1>>, next_month)

C26_Witness ==
    /\ last.op = "store_list_approved"
    /\ last.range = <<None, None>> /\ last.detail = "default_current_month"
    /\ last.arg = Today
    /\ \E id \in last.items : data[id]["date"] = December
    /\ \E id \in DOMAIN data \ last.items :
          data[id]["status"] = "approved" /\ data[id]["date"] = January

----------------------------------------------------------------------------
(* Claims about the file, checked under SpecCrash *)

(* C27: after a crash in the save of a mutation, the next load yields the
   complete set of records from before the mutation or the complete set
   from after it. *)
C27_CrashConsistent ==
    (last.op = "crash" /\ loaded) => data \in last.items

(* C28: once the store has been loaded, a missing or unreadable file has
   given an empty store and operations on it answer; a readable file has
   given every record it held, and get and the listings return them. *)
C28_LoadFailsOpen ==
    loaded =>
        LET held == IF disk = NoFile \/ disk = TornFile THEN <<>> ELSE disk
        IN  /\ data = held
            /\ last.op = "store_get" =>
                  last.items = IF last.id \in DOMAIN held
                               THEN {held[last.id]} ELSE {}
            /\ last.op = "store_list_approved" =>
                  last.items = {id \in DOMAIN held : held[id]["status"] = "approved"}
            /\ last.op = "list_accrued" =>
                  last.items = {id \in DOMAIN held :
                                    /\ held[id]["status"] = "approved"
                                    /\ held[id]["expense_type"] = "accrued"}

C28_Witness ==
    /\ loaded
    /\ disk = TornFile
    /\ data = <<>>
    /\ last.op = "store_get" /\ ~last.ok

(* C29: lazy loading is safe under concurrency: a get never misses a record
   the file held before the process started, and every such record is in
   memory once the load has been made and no call is under way, and is in
   the file at all times *)
C29_LazyLoadSafe ==
    \A id \in PersistedIds :
        /\ id \in DOMAIN disk
        /\ (last.op = "store_get" /\ last.id = id) => last.ok
        /\ (loaded /\ \A t \in Threads : pc[t] = "idle") => id \in DOMAIN data

(* C30: under interleaving with an admin's approve or reject, a delete
   request of a caller who is no admin never removes a record whose status
   is approved or rejected *)
C30_DeleteOnlyPending ==
    [][\A t \in Threads :
          (/\ pc[t] = "del_delete"
           /\ pc'[t] = "idle"
           /\ ~t_req[t].user.is_admin
           /\ t_req[t].id \in DOMAIN data
           /\ t_req[t].id \notin DOMAIN data')
          => data[t_req[t].id]["status"] = "pending"]_vars

----------------------------------------------------------------------------
(* Claims about the lock, checked under SpecLock *)

(* The program points inside a with self._lock block *)
HoldsLock(t) ==
    pc[t] \in {"read", "write", "append", "recompute", "save", "release", "unwind",
               "apr_body", "add_store", "add_save", "add_return", "get_return"}

(* The program points of a call that has not yet returned or raised *)
InCall(t) == pc[t] \notin {"idle", "ok", "failed", "raised"}

(* C31: no store operation blocks for ever: the lock is held by at most one
   operation at a time, by exactly the operation that is inside its with
   block, and under fair scheduling every operation under way returns or
   raises, on the success path, on an early failure return and when _save
   raises *)
C31_LockReleased ==
    /\ [](\A t, u \in Threads : (HoldsLock(t) /\ HoldsLock(u)) => t = u)
    /\ [](\A t \in Threads : HoldsLock(t) <=> lock = t)
    /\ \A t \in Threads : InCall(t) ~> ~InCall(t)

C31_Witness ==
    /\ pc[1] = "raised"
    /\ pc[2] \in {"read", "apr_body", "add_store", "get_return"}
    /\ lock = 2

----------------------------------------------------------------------------
(* Claims about the clearing event, checked under SpecClear *)

(* What a request asks the event to record *)
EventRecords(event, req) ==
    /\ event["paid_through_account_id"] = req.paid_through_account_id
    /\ event["date"] = OrEmpty(req.date)
    /\ event["reference_number"] = OrEmpty(req.reference_number)
    /\ "paid_through_account_name" \in DOMAIN req =>
           event["paid_through_account_name"] = OrEmpty(req["paid_through_account_name"])

(* C32: a clear of an approved accrued record with a positive amount,
   made through clear_accrued or through the HTTP clear request, appends
   an event that records the paid-through account id and name, the date
   and the reference number as the caller gave them *)
C32_ClearingEventFields ==
    [][\A id \in DOMAIN data :
          \A req \in ClearRequests \cup ClearHttpPayloads :
              (/\ \/ req \in ClearRequests /\ ClearAccruedWith(id, req)
                  \/ req \in ClearHttpPayloads /\ HttpClearAccrued(id, req)
               /\ ClearRecordOk(data, id)
               /\ ClearAmountOk(req.amount))
              => /\ Len(data'[id]["clearing"]) = Len(data[id]["clearing"]) + 1
                 /\ EventRecords(data'[id]["clearing"][Len(data'[id]["clearing"])], req)
      ]_vars

----------------------------------------------------------------------------
(* Claims about the accrued listing, checked under SpecAccrued *)

(* An approved accrued record, as it stands after the listing *)
IsApprovedAccrued(rec) ==
    rec["status"] = "approved" /\ rec["expense_type"] = "accrued"

(* C33: list_accrued without include_cleared returns exactly the approved
   accrued records with a balance above 0, and with include_cleared exactly
   the approved accrued records; a pending, a rejected or an ordinary
   record is in neither *)
C33_ListAccruedExact ==
    [][\A inc \in BOOLEAN :
          ListAccrued(TheUser, inc) =>
              /\ last'.items =
                    {id \in DOMAIN data' :
                        /\ IsApprovedAccrued(data'[id])
                        /\ inc \/ (/\ data'[id]["balance"] # None
                                   /\ data'[id]["balance"][1] > 0)}
              /\ \A id \in last'.items :
                    /\ data[id]["status"] \notin {"pending", "rejected"}
                    /\ data[id]["expense_type"] # "ordinary"
      ]_vars

C33_Witness ==
    /\ last.op = "list_accrued"
    /\ \E id \in DOMAIN data \ last.items :
          IsApprovedAccrued(data[id]) /\ data[id]["balance"] = Some(0)
    /\ \E id \in last.items : data[id]["balance"] = Some(Cent)

====
